---------------------------- MODULE Spec2Model ----------------------------
(***************************************************************************)
(* A model of validator.py, the MCP type-safety validator: the type       *)
(* classifier, field-name inference, the heuristic detectors, the pattern  *)
(* classifier, the coercion engine, the two validation entry points and    *)
(* the session statistics.                                                 *)
(*                                                                         *)
(* Python values are records built by the Py* constructors below.  Python  *)
(* str is a TLA+ string; Python int is arbitrary precision and is kept as  *)
(* a pair <<hi, lo>> standing for hi * 10^6 + lo with 0 <= lo < 10^6, so   *)
(* that the timestamp windows (up to 2.5 * 10^12) are exact; a Python      *)
(* float is a decimal mantissa (such a pair) with a count of fractional    *)
(* digits.  A Python dict is the sequence of its items in insertion order. *)
(***************************************************************************)
EXTENDS Integers, Sequences, FiniteSets, TLC

VARIABLES
    entry,      \* the entry point the caller invokes
    arguments,  \* validate_tool_arguments: the arguments dict (sequence of items)
    response,   \* check_response_types: the response value
    schema,     \* the schema argument of either entry point
    report,     \* the ValidationReport returned, NoReport until the call returns
    inputs,     \* get_actual_type, detect_pattern, try_coerce: the caller's arguments
    calls,      \* the calls of those functions that have returned, oldest first
    stats,      \* the caller's SessionStats object
    score       \* the last call of safety_score(), NoScore before the first

vars == <<entry, arguments, response, schema, report, inputs, calls, stats, score>>

(***************************************************************************)
(* Strings                                                                 *)
(***************************************************************************)
CharAt(s, i) == SubSeq(s, i, i)

StartsWith(s, p) == Len(s) >= Len(p) /\ SubSeq(s, 1, Len(p)) = p

EndsWith(s, p) == Len(s) >= Len(p) /\ SubSeq(s, Len(s) - Len(p) + 1, Len(s)) = p

\* Python's  p in s  for strings
Contains(s, p) == \E i \in 1..(Len(s) - Len(p) + 1) : SubSeq(s, i, i + Len(p) - 1) = p

UpperLetters == "ABCDEFGHIJKLMNOPQRSTUVWXYZ"

LowerLetters == "abcdefghijklmnopqrstuvwxyz"

\* the lower-case letter of each upper-case letter
LowerOf ==
    [c \in {CharAt(UpperLetters, i) : i \in 1..Len(UpperLetters)} |->
        CharAt(LowerLetters, CHOOSE i \in 1..Len(UpperLetters) : CharAt(UpperLetters, i) = c)]

LowerChar(c) == IF c \in DOMAIN LowerOf THEN LowerOf[c] ELSE c

RECURSIVE StrLower(_)
\* str.lower(), and the case folding of re.IGNORECASE, on ASCII text
StrLower(s) == IF s = "" THEN "" ELSE LowerChar(Head(s)) \o StrLower(Tail(s))

DigitChars == "0123456789"

\* the value of each decimal digit
DigitOf ==
    [c \in {CharAt(DigitChars, i) : i \in 1..Len(DigitChars)} |->
        (CHOOSE i \in 1..Len(DigitChars) : CharAt(DigitChars, i) = c) - 1]

IsDigit(c) == c \in DOMAIN DigitOf

DigitVal(c) == DigitOf[c]

AllDigits(s) == \A i \in 1..Len(s) : IsDigit(CharAt(s, i))

IsSpace(c) == c \in {" ", "\t", "\n", "\r"}

RECURSIVE LStrip(_)
LStrip(s) == IF s # "" /\ IsSpace(Head(s)) THEN LStrip(Tail(s)) ELSE s

RECURSIVE RStrip(_)
RStrip(s) ==
    IF s # "" /\ IsSpace(CharAt(s, Len(s))) THEN RStrip(SubSeq(s, 1, Len(s) - 1)) ELSE s

\* str.strip(): what int() and float() do to their argument first
Strip(s) == RStrip(LStrip(s))

RECURSIVE ReplaceAll(_, _, _)
\* str.replace(old, new), old non-empty
ReplaceAll(s, old, new) ==
    IF Len(s) < Len(old) THEN s
    ELSE IF StartsWith(s, old)
         THEN new \o ReplaceAll(SubSeq(s, Len(old) + 1, Len(s)), old, new)
         ELSE Head(s) \o ReplaceAll(Tail(s), old, new)

(***************************************************************************)
(* Python int: <<hi, lo>> is hi * 10^6 + lo, 0 <= lo < 10^6                *)
(***************************************************************************)
Limb == 10^6

Big(hi, lo) == <<hi, lo>>

BigOf(k) == <<k \div Limb, k % Limb>>

BigLE(a, b) == a[1] < b[1] \/ (a[1] = b[1] /\ a[2] <= b[2])

BigLT(a, b) == a[1] < b[1] \/ (a[1] = b[1] /\ a[2] < b[2])

BigIsNeg(a) == a[1] < 0

BigNeg(a) == IF a[2] = 0 THEN <<0 - a[1], 0>> ELSE <<0 - a[1] - 1, Limb - a[2]>>

\* a * 10 + d for a >= 0 and a digit d
BigShiftIn(a, d) == LET t == a[2] * 10 + d IN <<a[1] * 10 + t \div Limb, t % Limb>>

\* a \div 10
BigDiv10(a) == <<a[1] \div 10, ((a[1] % 10) * Limb + a[2]) \div 10>>

RECURSIVE DigitsToBig(_, _)
\* the value of the decimal digit string s, continuing from acc
DigitsToBig(s, acc) ==
    IF s = "" THEN acc ELSE DigitsToBig(Tail(s), BigShiftIn(acc, DigitVal(Head(s))))

RECURSIVE NatToStr(_)
NatToStr(k) ==
    IF k < 10 THEN CharAt(DigitChars, k + 1)
    ELSE NatToStr(k \div 10) \o CharAt(DigitChars, (k % 10) + 1)

RECURSIVE ZeroPad(_, _)
\* s padded on the left with zeros to at least w characters
ZeroPad(s, w) == IF Len(s) >= w THEN s ELSE ZeroPad("0" \o s, w)

\* decimal digits of a >= 0
BigToDigits(a) ==
    IF a[1] = 0 THEN NatToStr(a[2]) ELSE NatToStr(a[1]) \o ZeroPad(NatToStr(a[2]), 6)

\* str(n) for an int n
IntToStr(a) == IF BigIsNeg(a) THEN "-" \o BigToDigits(BigNeg(a)) ELSE BigToDigits(a)

(***************************************************************************)
(* Python values                                                           *)
(***************************************************************************)
PyVal(tag, n, e, s, items) == [tag |-> tag, n |-> n, e |-> e, s |-> s, items |-> items]

PyNone == PyVal("NoneType", BigOf(0), 0, "", <<>>)

PyBool(b) == PyVal("bool", BigOf(IF b THEN 1 ELSE 0), 0, "", <<>>)

PyTrue == PyBool(TRUE)

PyFalse == PyBool(FALSE)

PyBigInt(a) == PyVal("int", a, 0, "", <<>>)

PyInt(k) == PyBigInt(BigOf(k))

\* the int a * 10^k for k > 0: an int beyond the range of the pairs
PyIntTimesTenTo(a, k) == PyVal("int", a, 0 - k, "", <<>>)

RECURSIVE PyFloat(_, _)
\* the float  m / 10^e, in lowest terms of e
PyFloat(m, e) ==
    IF e > 0 /\ m[2] % 10 = 0 THEN PyFloat(BigDiv10(m), e - 1)
    ELSE PyVal("float", m, e, "", <<>>)

PyStr(s) == PyVal("str", BigOf(0), 0, s, <<>>)

\* a list; the model needs no elements
PyList == PyVal("list", BigOf(0), 0, "", <<>>)

\* a dict with the given items, a sequence of [key, value] in insertion order
PyDict(items) == PyVal("dict", BigOf(0), 0, "", items)

\* a value of any other Python class (a set, a tuple, an object)
PyOther == PyVal("other", BigOf(0), 0, "", <<>>)

Item(k, v) == [key |-> k, value |-> v]

Keys(d) == {d[i].key : i \in 1..Len(d)}

HasKey(d, k) == \E i \in 1..Len(d) : d[i].key = k

\* d[k] for a key the dict has
DictGet(d, k) == d[CHOOSE i \in 1..Len(d) : d[i].key = k].value

\* d[k] = v
DictSet(d, k, v) ==
    IF HasKey(d, k)
    THEN [i \in 1..Len(d) |-> IF d[i].key = k THEN Item(k, v) ELSE d[i]]
    ELSE Append(d, Item(k, v))

IsNumeric(v) == v.tag \in {"bool", "int", "float"}

\* Python's  a == b : bool, int and float compare by numeric value
PyEq(a, b) ==
    IF IsNumeric(a) /\ IsNumeric(b) THEN a.n = b.n /\ a.e = b.e
    ELSE a = b

\* Python's  v in [x1, x2, ...]
PyIn(v, list) == \E i \in 1..Len(list) : PyEq(v, list[i])

\* str(x) for a float x (positional notation, the only one at the model's magnitudes)
FloatToStr(v) ==
    LET neg == BigIsNeg(v.n)
        ds  == ZeroPad(BigToDigits(IF neg THEN BigNeg(v.n) ELSE v.n), v.e + 1)
        txt == IF v.e = 0 THEN ds \o ".0"
               ELSE SubSeq(ds, 1, Len(ds) - v.e) \o "." \o SubSeq(ds, Len(ds) - v.e + 1, Len(ds))
    IN  IF neg THEN "-" \o txt ELSE txt

RECURSIVE Zeros(_)
\* k zeros
Zeros(k) ==
    IF k <= 0 THEN ""
    ELSE IF k % 2 = 0 THEN LET half == Zeros(k \div 2) IN half \o half
    ELSE "0" \o Zeros(k - 1)

\* str(v), as an f-string renders v, for None, bool, int, float and str
ToStr(v) ==
    CASE v.tag = "NoneType" -> "None"
      [] v.tag = "bool"     -> IF v = PyTrue THEN "True" ELSE "False"
      [] v.tag = "int"      -> IntToStr(v.n) \o Zeros(0 - v.e)
      [] v.tag = "float"    -> FloatToStr(v)
      [] v.tag = "str"      -> v.s
      [] v.tag = "list"     -> "[]"
      [] v.tag = "dict"     -> "{}"
      [] OTHER              -> "<object>"

(***************************************************************************)
(* Type classifier                                                         *)
(***************************************************************************)
\* Python None where an Optional[str] is expected
NoneStr == "<None>"

\* isinstance(value, cls): bool is a subclass of int
isinstance(value, cls) == value.tag = cls \/ (cls = "int" /\ value.tag = "bool")

\* int tested before bool
get_actual_type_int_first(value) ==
    IF value = PyNone THEN "null"
    ELSE IF isinstance(value, "int") THEN "integer"
    ELSE IF isinstance(value, "bool") THEN "boolean"
    ELSE IF isinstance(value, "float") THEN "number"
    ELSE IF isinstance(value, "str") THEN "string"
    ELSE IF isinstance(value, "list") THEN "array"
    ELSE IF isinstance(value, "dict") THEN "object"
    ELSE "unknown"

get_actual_type(value) ==
    IF value = PyNone THEN "null"
    ELSE IF isinstance(value, "bool") THEN "boolean"
    ELSE IF isinstance(value, "int") THEN "integer"
    ELSE IF isinstance(value, "float") THEN "number"
    ELSE IF isinstance(value, "str") THEN "string"
    ELSE IF isinstance(value, "list") THEN "array"
    ELSE IF isinstance(value, "dict") THEN "object"
    ELSE "unknown"

(***************************************************************************)
(* Field-name inference.  A rule is one regular expression of the table,   *)
(* kept by its shape: "suffix" is .*lit$, "prefix" is ^lit.*, "contains"   *)
(* is .*lit.*, "exact" is ^lit$.  Field names hold no newline, so that $   *)
(* is the end of the name and .* spans any of its characters.              *)
(***************************************************************************)
Rule(shape, lit) == [shape |-> shape, lit |-> lit]

FIELD_PATTERNS ==
    << [type  |-> "integer",
        rules |-> << Rule("suffix", "_id"), Rule("suffix", "Id"), Rule("suffix", "ID"),
                     Rule("suffix", "_count"), Rule("suffix", "_total"), Rule("suffix", "_num"),
                     Rule("exact", "id"), Rule("exact", "count"), Rule("exact", "total"),
                     Rule("exact", "num") >>],
       [type  |-> "datetime",
        rules |-> << Rule("suffix", "_at"), Rule("suffix", "_time"), Rule("contains", "timestamp"),
                     Rule("exact", "created"), Rule("exact", "updated"), Rule("exact", "deleted"),
                     Rule("suffix", "_date") >>],
       [type  |-> "number",
        rules |-> << Rule("contains", "amount"), Rule("contains", "price"), Rule("contains", "cost"),
                     Rule("suffix", "_rate"), Rule("contains", "_percent"),
                     Rule("contains", "_ratio") >>],
       [type  |-> "boolean",
        rules |-> << Rule("prefix", "is_"), Rule("prefix", "has_"), Rule("prefix", "can_"),
                     Rule("suffix", "_enabled"), Rule("suffix", "_active"),
                     Rule("suffix", "_flag") >>] >>

\* re.match(pattern, field_name, re.IGNORECASE), given the lower-case form of the name
re_match_ignorecase(rule, lower_name) ==
    LET lit == StrLower(rule.lit)
    IN  CASE rule.shape = "suffix"   -> EndsWith(lower_name, lit)
          [] rule.shape = "prefix"   -> StartsWith(lower_name, lit)
          [] rule.shape = "contains" -> Contains(lower_name, lit)
          [] rule.shape = "exact"    -> lower_name = lit

\* some pattern of the group matches
GroupMatches(group, lower_name) ==
    \E j \in 1..Len(group.rules) : re_match_ignorecase(group.rules[j], lower_name)

RECURSIVE FirstMatch_last_wins(_, _)
\* the search goes on after a match: the last matching group decides
FirstMatch_last_wins(g, lower_name) ==
    IF g > Len(FIELD_PATTERNS) THEN NoneStr
    ELSE LET later == FirstMatch_last_wins(g + 1, lower_name)
         IN  IF later # NoneStr THEN later
             ELSE IF GroupMatches(FIELD_PATTERNS[g], lower_name) THEN FIELD_PATTERNS[g].type
             ELSE NoneStr

RECURSIVE FirstMatch(_, _)
\* the type of the first group from g on with a matching pattern
FirstMatch(g, lower_name) ==
    IF g > Len(FIELD_PATTERNS) THEN NoneStr
    ELSE IF GroupMatches(FIELD_PATTERNS[g], lower_name) THEN FIELD_PATTERNS[g].type
    ELSE FirstMatch(g + 1, lower_name)

infer_type_from_field_name(field_name) == FirstMatch(1, StrLower(field_name))

(***************************************************************************)
(* Heuristic detectors                                                     *)
(***************************************************************************)
\* 1_000_000_000 <= value <= 2_500_000_000 or
\* 1_000_000_000_000 <= value <= 2_500_000_000_000
\* the upper bounds excluded
looks_like_unix_timestamp_exclusive(value) ==
    /\ value.e = 0
    /\ \/ BigLE(Big(1000, 0), value.n) /\ BigLT(value.n, Big(2500, 0))
       \/ BigLE(Big(1000000, 0), value.n) /\ BigLT(value.n, Big(2500000, 0))

looks_like_unix_timestamp(value) ==
    /\ value.e = 0                      \* an int beyond the pairs is above both windows
    /\ \/ BigLE(Big(1000, 0), value.n) /\ BigLE(value.n, Big(2500, 0))
       \/ BigLE(Big(1000000, 0), value.n) /\ BigLE(value.n, Big(2500000, 0))

\* re.match of a pattern made of \d (written d in tpl) and literal characters
MatchesDigitsTemplate(s, tpl) ==
    /\ Len(s) >= Len(tpl)
    /\ \A i \in 1..Len(tpl) :
          IF CharAt(tpl, i) = "d" THEN IsDigit(CharAt(s, i)) ELSE CharAt(s, i) = CharAt(tpl, i)

looks_like_iso8601(s) ==
    \/ MatchesDigitsTemplate(s, "dddd-dd-ddTdd:dd:dd")
    \/ /\ MatchesDigitsTemplate(s, "dddd-dd-dd")        \* $: the end, or before a last newline
       /\ (Len(s) = 10 \/ (Len(s) = 11 /\ CharAt(s, 11) = "\n"))
    \/ MatchesDigitsTemplate(s, "dddd-dd-dd dd:dd:dd")

money_patterns == <<"amount", "price", "cost", "total", "fee", "charge">>

looks_like_cents_string(s, field_name) ==
    LET body == IF Len(s) > 1 /\ CharAt(s, Len(s)) = "\n" THEN SubSeq(s, 1, Len(s) - 1) ELSE s
    IN  IF ~(body # "" /\ AllDigits(body)) THEN FALSE
        ELSE \E i \in 1..Len(money_patterns) : Contains(StrLower(field_name), money_patterns[i])

(***************************************************************************)
(* Pattern classifier                                                      *)
(***************************************************************************)
\* the id rule tried before the timestamp rules
detect_pattern_id_first(field_name, value, expected_type) ==
    LET actual_type == get_actual_type(value)
    IN  IF Contains(StrLower(field_name), "id")
           /\ expected_type = "integer" /\ actual_type = "string"
        THEN "id_type_mismatch"
        ELSE IF expected_type = "string" /\ actual_type = "integer"
                /\ looks_like_unix_timestamp(value)
        THEN "timestamp_mismatch"
        ELSE IF expected_type = "integer" /\ actual_type = "string" /\ looks_like_iso8601(value.s)
        THEN "timestamp_mismatch"
        ELSE IF actual_type = "string" /\ looks_like_cents_string(value.s, field_name)
        THEN "amount_format"
        ELSE IF expected_type = "boolean"
                /\ PyIn(value, << PyStr("true"), PyStr("false"), PyStr("True"), PyStr("False"),
                                  PyStr("1"), PyStr("0"), PyInt(1), PyInt(0) >>)
        THEN "boolean_variant"
        ELSE IF PyIn(value, << PyNone, PyStr(""), PyStr("null"), PyStr("undefined"),
                               PyStr("None") >>)
        THEN "null_handling"
        ELSE NoneStr

detect_pattern(field_name, value, expected_type) ==
    LET actual_type == get_actual_type(value)
    IN  IF expected_type = "string" /\ actual_type = "integer" /\ looks_like_unix_timestamp(value)
        THEN "timestamp_mismatch"
        ELSE IF expected_type = "integer" /\ actual_type = "string" /\ looks_like_iso8601(value.s)
        THEN "timestamp_mismatch"
        ELSE IF Contains(StrLower(field_name), "id")
                /\ expected_type = "integer" /\ actual_type = "string"
        THEN "id_type_mismatch"
        ELSE IF actual_type = "string" /\ looks_like_cents_string(value.s, field_name)
        THEN "amount_format"
        ELSE IF expected_type = "boolean"
                /\ PyIn(value, << PyStr("true"), PyStr("false"), PyStr("True"), PyStr("False"),
                                  PyStr("1"), PyStr("0"), PyInt(1), PyInt(0) >>)
        THEN "boolean_variant"
        ELSE IF PyIn(value, << PyNone, PyStr(""), PyStr("null"), PyStr("undefined"),
                               PyStr("None") >>)
        THEN "null_handling"
        ELSE NoneStr

(***************************************************************************)
(* Coercion engine                                                         *)
(***************************************************************************)
\* the digits of a literal: digits, single underscores allowed between them
IsDigitGroup(s) ==
    /\ s # ""
    /\ IsDigit(Head(s)) /\ IsDigit(CharAt(s, Len(s)))
    /\ \A i \in 1..Len(s) : IsDigit(CharAt(s, i)) \/ CharAt(s, i) = "_"
    /\ ~Contains(s, "__")

Unsigned(s) == IF s # "" /\ Head(s) \in {"+", "-"} THEN Tail(s) ELSE s

\* int(s) for a str s: [ok |-> FALSE] stands for ValueError
int_of_str(s) ==
    LET body == Unsigned(Strip(s))
    IN  IF IsDigitGroup(body)
        THEN LET mag == DigitsToBig(ReplaceAll(body, "_", ""), BigOf(0))
             IN  [ok |-> TRUE, n |-> IF Head(Strip(s)) = "-" THEN BigNeg(mag) ELSE mag]
        ELSE [ok |-> FALSE, n |-> BigOf(0)]

\* the place of the decimal point in s, 0 when it has none
PointAt(s) == IF Contains(s, ".") THEN CHOOSE i \in 1..Len(s) : CharAt(s, i) = "." ELSE 0

\* float(s) for a str s in positional notation (the model's strings spell no
\* exponent, infinity or nan): [ok |-> FALSE] stands for ValueError
float_of_str(s) ==
    LET body  == Unsigned(Strip(s))
        p     == PointAt(body)
        whole == IF p = 0 THEN body ELSE SubSeq(body, 1, p - 1)
        frac  == IF p = 0 THEN "" ELSE SubSeq(body, p + 1, Len(body))
        ok    == /\ whole # "" \/ frac # ""
                 /\ whole = "" \/ IsDigitGroup(whole)
                 /\ frac = "" \/ IsDigitGroup(frac)
        fdig  == ReplaceAll(frac, "_", "")
        mag   == DigitsToBig(ReplaceAll(whole, "_", "") \o fdig, BigOf(0))
    IN  IF ok
        THEN [ok |-> TRUE,
              x  |-> PyFloat(IF Head(Strip(s)) = "-" THEN BigNeg(mag) ELSE mag, Len(fdig))]
        ELSE [ok |-> FALSE, x |-> PyNone]

\* the count of decimal digits of the largest float, 2^1024 being about 1.8 * 10^308
FloatMaxDigits == 309

\* float(value) for an int: [ok |-> FALSE] stands for OverflowError, raised for an
\* int of 2^1024 or more.  Decided by the count of digits; an int of exactly
\* FloatMaxDigits digits is taken to convert, and the model makes no call with one.
float_of_int(value) ==
    LET mag == IF BigIsNeg(value.n) THEN BigNeg(value.n) ELSE value.n
    IN  IF Len(BigToDigits(mag)) - value.e > FloatMaxDigits
        THEN [ok |-> FALSE, x |-> PyNone]
        ELSE [ok |-> TRUE, x |-> PyVal("float", value.n, value.e, "", <<>>)]

Coerced(success, value, message) == [success |-> success, value |-> value, message |-> message]

\* the call does not return: the exception leaves try_coerce
Raised(exception) == [raised |-> exception]

\* days from 1970-01-01 to the civil date y-m-d (proleptic Gregorian)
DaysFromCivil(y, m, d) ==
    LET yy  == IF m <= 2 THEN y - 1 ELSE y
        era == yy \div 400
        yoe == yy - era * 400
        doy == (153 * (IF m > 2 THEN m - 3 ELSE m + 9) + 2) \div 5 + d - 1
        doe == yoe * 365 + yoe \div 4 - yoe \div 100 + doy
    IN  era * 146097 + doe - 719468

\* the civil date <<y, m, d>> of a count of days from 1970-01-01
CivilFromDays(days) ==
    LET z   == days + 719468
        era == z \div 146097
        doe == z - era * 146097
        yoe == (doe - doe \div 1460 + doe \div 36524 - doe \div 146096) \div 365
        doy == doe - (365 * yoe + yoe \div 4 - yoe \div 100)
        mp  == (5 * doy + 2) \div 153
        d   == doy - (153 * mp + 2) \div 5 + 1
        m   == IF mp < 10 THEN mp + 3 ELSE mp - 9
        y   == yoe + era * 400
    IN  <<IF m <= 2 THEN y + 1 ELSE y, m, d>>

\* value > 1e11: try_coerce reads such a timestamp as milliseconds
above_1e11(value) ==
    IF value.e < 0 THEN ~BigIsNeg(value.n) ELSE BigLT(Big(100000, 0), value.n)

TwoDigits(k) == ZeroPad(NatToStr(k), 2)

\* datetime.fromtimestamp(ts, tz=timezone.utc).isoformat().replace("+00:00", "Z") with
\* ts = value / 1000 if value > 1e11 else value, for a value passing the
\* timestamp detector
unix_to_iso8601(value) ==
    LET millis == above_1e11(value)
        secs   == IF millis
                  THEN <<value.n[1] \div 1000,
                         (value.n[1] % 1000) * 1000 + (value.n[2] \div 1000)>>
                  ELSE value.n
        ms     == IF millis THEN (value.n[2] % 1000) ELSE 0
        \* secs = h * 100 + secs[2] % 100 ;  86400 = 864 * 100
        h      == secs[1] * 10000 + secs[2] \div 100
        days   == h \div 864
        sod    == (h % 864) * 100 + (secs[2] % 100)
        ymd    == CivilFromDays(days)
    IN  ZeroPad(NatToStr(ymd[1]), 4) \o "-" \o TwoDigits(ymd[2]) \o "-" \o TwoDigits(ymd[3])
        \o "T" \o TwoDigits(sod \div 3600) \o ":" \o TwoDigits((sod % 3600) \div 60)
        \o ":" \o TwoDigits((sod % 60))
        \o (IF ms = 0 THEN "" ELSE "." \o ZeroPad(NatToStr(ms), 3) \o "000")
        \o "Z"

NumAt(s, i, j) == DigitsToBig(SubSeq(s, i, j), BigOf(0))[2]

\* int(datetime.fromisoformat(s.replace("Z", "+00:00")).timestamp()) for the spellings
\* YYYY-MM-DD, YYYY-MM-DDTHH:MM:SS and YYYY-MM-DD HH:MM:SS, each with an optional
\* Z or +00:00; [ok |-> FALSE] stands for ValueError.  A spelling without an offset
\* is read as UTC here (Python reads it in the local zone of the process).
iso8601_to_unix(s) ==
    LET t       == ReplaceAll(s, "Z", "+00:00")
        base    == IF EndsWith(t, "+00:00") THEN SubSeq(t, 1, Len(t) - 6) ELSE t
        hasTime == Len(base) = 19
        y       == NumAt(base, 1, 4)
        m       == NumAt(base, 6, 7)
        d       == NumAt(base, 9, 10)
        hh      == IF hasTime THEN NumAt(base, 12, 13) ELSE 0
        mi      == IF hasTime THEN NumAt(base, 15, 16) ELSE 0
        ss      == IF hasTime THEN NumAt(base, 18, 19) ELSE 0
        shape   == \/ Len(base) = 10 /\ MatchesDigitsTemplate(base, "dddd-dd-dd")
                   \/ Len(base) = 19 /\ (\/ MatchesDigitsTemplate(base, "dddd-dd-ddTdd:dd:dd")
                                         \/ MatchesDigitsTemplate(base, "dddd-dd-dd dd:dd:dd"))
        days    == DaysFromCivil(y, m, d)
        h       == days * 864 + (hh * 3600 + mi * 60 + ss) \div 100
        lo100   == (hh * 3600 + mi * 60 + ss) % 100
    IN  IF shape /\ y >= 1970 /\ m \in 1..12 /\ d \in 1..31 /\ CivilFromDays(days) = <<y, m, d>>
             /\ hh < 24 /\ mi < 60 /\ ss < 60
        THEN [ok |-> TRUE, n |-> <<h \div 10000, (h % 10000) * 100 + lo100>>]
        ELSE [ok |-> FALSE, n |-> BigOf(0)]

\* the rules of try_coerce below its first, in their order
try_coerce_rules(value, target_type) ==
    LET actual_type == get_actual_type(value)
    IN  IF target_type = "integer" /\ actual_type = "string"
        THEN LET r == int_of_str(value.s)                 \* String to integer
             IN  IF r.ok
                 THEN Coerced(TRUE, PyBigInt(r.n),
                              "Convert string \"" \o value.s \o "\" to integer " \o IntToStr(r.n))
                 ELSE Coerced(FALSE, value, "Cannot convert \"" \o value.s \o "\" to integer")
        ELSE IF target_type = "number" /\ actual_type = "string"
        THEN LET r == float_of_str(value.s)               \* String to number
             IN  IF r.ok
                 THEN Coerced(TRUE, r.x,
                              "Convert string \"" \o value.s \o "\" to number " \o ToStr(r.x))
                 ELSE Coerced(FALSE, value, "Cannot convert \"" \o value.s \o "\" to number")
        ELSE IF target_type = "number" /\ actual_type = "integer"
        THEN IF float_of_int(value).ok                    \* Integer to number
             THEN Coerced(TRUE, float_of_int(value).x, "Integer is valid as number")
             ELSE Raised("OverflowError")
        ELSE IF target_type = "boolean"
                /\ PyIn(value, << PyInt(1), PyStr("1"), PyStr("true"), PyStr("True"),
                                  PyStr("yes"), PyStr("Yes") >>)
        THEN Coerced(TRUE, PyTrue, "Convert \"" \o ToStr(value) \o "\" to true")
        ELSE IF target_type = "boolean"
                /\ PyIn(value, << PyInt(0), PyStr("0"), PyStr("false"), PyStr("False"),
                                  PyStr("no"), PyStr("No") >>)
        THEN Coerced(TRUE, PyFalse, "Convert \"" \o ToStr(value) \o "\" to false")
        ELSE IF target_type = "string" /\ actual_type \in {"integer", "number"}
        THEN Coerced(TRUE, PyStr(ToStr(value)), "Convert " \o ToStr(value) \o " to string")
        ELSE IF target_type = "string" /\ actual_type = "integer"
                /\ looks_like_unix_timestamp(value)       \* Timestamp conversions
        THEN Coerced(TRUE, PyStr(unix_to_iso8601(value)),
                     "Convert Unix timestamp to ISO-8601: " \o unix_to_iso8601(value))
        ELSE IF target_type = "integer" /\ actual_type = "string"
                /\ looks_like_iso8601(value.s) /\ iso8601_to_unix(value.s).ok
        THEN Coerced(TRUE, PyBigInt(iso8601_to_unix(value.s).n),
                     "Convert ISO-8601 to Unix timestamp: "
                         \o IntToStr(iso8601_to_unix(value.s).n))
        ELSE Coerced(FALSE, value, "Cannot coerce " \o actual_type \o " to " \o target_type)

\* the other rules tried first, the equality of the types only when they fail
try_coerce_match_last(value, target_type) ==
    IF get_actual_type(value) # target_type \/ try_coerce_rules(value, target_type).success
    THEN try_coerce_rules(value, target_type)
    ELSE Coerced(TRUE, value, "Types match")

try_coerce(value, target_type) ==
    IF get_actual_type(value) = target_type
    THEN Coerced(TRUE, value, "Types match")
    ELSE try_coerce_rules(value, target_type)

(***************************************************************************)
(* Schemas.  A schema argument is None or a dict; of a dict the model      *)
(* keeps which keys it has and the values of "properties" (a dict from     *)
(* field name to field schema) and "required" (a list of names).  A field  *)
(* schema is a dict that may have a "type": one tag or a list of tags.     *)
(***************************************************************************)
TypeTag(t) == [is_list |-> FALSE, tag |-> t, tags |-> <<>>]

TypeList(ts) == [is_list |-> TRUE, tag |-> "", tags |-> ts]

\* Python None as a type value
TypeNone == TypeTag(NoneStr)

FieldSchema(keys, type) == [keys |-> keys, type |-> type]

\* field_schema.get("type")
FieldType(field_schema) ==
    IF "type" \in field_schema.keys THEN field_schema.type ELSE TypeNone

\* field_schema.get("type", "unknown")
FieldTypeOrUnknown(field_schema) ==
    IF "type" \in field_schema.keys THEN field_schema.type ELSE TypeTag("unknown")

\* not expected_type : None, "" and [] are false
NotType(type) == IF type.is_list THEN type.tags = <<>> ELSE type.tag \in {NoneStr, ""}

InTags(tag, tags) == \E i \in 1..Len(tags) : tags[i] = tag

RECURSIVE JoinQuoted(_)
JoinQuoted(tags) ==
    IF tags = <<>> THEN ""
    ELSE "'" \o Head(tags) \o "'" \o (IF Len(tags) > 1 THEN ", " ELSE "") \o JoinQuoted(Tail(tags))

\* str(expected_type) for a list of tags
ListToStr(tags) == "[" \o JoinQuoted(tags) \o "]"

NoSchema == [none |-> TRUE, keys |-> {}, properties |-> <<>>, required |-> <<>>]

Schema(keys, properties, required) ==
    [none |-> FALSE, keys |-> keys, properties |-> properties, required |-> required]

\* only None is false
NotSchema_none_only(s) == s.none

\* not schema : None and the empty dict are false
NotSchema(s) == s.none \/ s.keys = {}

\* schema.get("properties", {})
SchemaProperties(s) == IF "properties" \in s.keys THEN s.properties ELSE <<>>

\* schema.get("required", [])
SchemaRequired(s) == IF "required" \in s.keys THEN s.required ELSE <<>>

(***************************************************************************)
(* Reports                                                                 *)
(***************************************************************************)
ValidationResult(field, severity, message, value, expected_type, actual_type, suggestion, auto_fix) ==
    [field |-> field, severity |-> severity, message |-> message, value |-> value,
     expected_type |-> expected_type, actual_type |-> actual_type,
     suggestion |-> suggestion, auto_fix |-> auto_fix]

\* ValidationReport(valid=True)
EmptyReport ==
    [valid |-> TRUE, warnings |-> <<>>, errors |-> <<>>, suggestions |-> <<>>,
     auto_fixes |-> <<>>]

AddWarning(rep, result) ==
    [rep EXCEPT !.warnings = Append(@, result),
                !.auto_fixes = DictSet(@, result.field, result.auto_fix)]

AddError(rep, result) == [rep EXCEPT !.errors = Append(@, result), !.valid = FALSE]

AddSuggestion(rep, result) == [rep EXCEPT !.suggestions = Append(@, result)]

(***************************************************************************)
(* validate_tool_arguments                                                 *)
(***************************************************************************)
\* a variant that records no auto-fix for its warning
Mismatch_without_auto_fixes(rep, field_name, value, expected_type, actual_type, suggestion, c) ==
    IF c.success
    THEN [rep EXCEPT !.warnings = Append(@, ValidationResult(
              field_name, "warning", c.message, value, TypeTag(expected_type), actual_type,
              suggestion, c.value))]
    ELSE AddError(rep, ValidationResult(field_name, "error", c.message, value,
                                        TypeTag(expected_type), actual_type,
                                        NoneStr, PyNone))

\* the warning or the error of a mismatch, by the outcome c of try_coerce
Mismatch(rep, field_name, value, expected_type, actual_type, suggestion, c) ==
    IF c.success
    THEN AddWarning(rep, ValidationResult(field_name, "warning", c.message, value,
                                          TypeTag(expected_type), actual_type,
                                          suggestion, c.value))
    ELSE AddError(rep, ValidationResult(field_name, "error", c.message, value,
                                        TypeTag(expected_type), actual_type,
                                        NoneStr, PyNone))

\* a variant that expects a string where no rule matches the name
InferField_defaults_to_string(rep, field_name, value) ==
    LET inferred      == infer_type_from_field_name(field_name)
        inferred_type == IF inferred = NoneStr THEN "string" ELSE inferred
        actual_type   == get_actual_type(value)
    IN  IF actual_type # inferred_type
        THEN Mismatch(rep, field_name, value, inferred_type, actual_type,
                      "Consider using " \o inferred_type \o " type",
                      try_coerce(value, inferred_type))
        ELSE rep

\* the body of the loop over arguments.items() when there is no schema
InferField(rep, field_name, value) ==
    LET inferred_type == infer_type_from_field_name(field_name)
        actual_type   == get_actual_type(value)
        pattern       == detect_pattern(field_name, value, inferred_type)
    IN  IF inferred_type \notin {NoneStr, ""} /\ actual_type # inferred_type
        THEN Mismatch(rep, field_name, value, inferred_type, actual_type,
                      "Consider using " \o inferred_type \o " type",
                      try_coerce(value, inferred_type))
        ELSE rep

\* a variant that appends the error and leaves valid as it is
CheckRequired_keeps_valid(rep, req_field, args, properties) ==
    IF ~HasKey(args, req_field)
    THEN [rep EXCEPT !.errors = Append(@, ValidationResult(
              req_field, "error", "Required field '" \o req_field \o "' is missing", PyNone,
              IF HasKey(properties, req_field)
              THEN FieldTypeOrUnknown(DictGet(properties, req_field))
              ELSE TypeTag("unknown"),
              "missing", NoneStr, PyNone))]
    ELSE rep

\* a variant that never reads the declared type of the missing field
CheckRequired_type_unknown(rep, req_field, args, properties) ==
    IF ~HasKey(args, req_field)
    THEN AddError(rep, ValidationResult(
             req_field, "error", "Required field '" \o req_field \o "' is missing", PyNone,
             TypeTag("unknown"), "missing", NoneStr, PyNone))
    ELSE rep

\* the body of the loop over required
CheckRequired(rep, req_field, args, properties) ==
    IF ~HasKey(args, req_field)
    THEN AddError(rep, ValidationResult(
             req_field, "error", "Required field '" \o req_field \o "' is missing", PyNone,
             IF HasKey(properties, req_field)
             THEN FieldTypeOrUnknown(DictGet(properties, req_field))
             ELSE TypeTag("unknown"),
             "missing", NoneStr, PyNone))
    ELSE rep

\* a variant that tries the first listed type only
CoercesToAny_first_only(value, tags) == try_coerce(value, tags[1]).success

\* can_coerce of the multiple-types branch
CoercesToAny(value, tags) == \E i \in 1..Len(tags) : try_coerce(value, tags[i]).success

\* a variant that goes on to check the undeclared field by its name
UnknownField_then_inferred(rep, field_name, value) ==
    InferField(AddSuggestion(rep, ValidationResult(
                   field_name, "suggestion", "Field '" \o field_name \o "' not in schema",
                   value, TypeTag("unknown"), get_actual_type(value),
                   "This field may be ignored by the server", PyNone)),
               field_name, value)

\* the field is not declared in the schema's properties
UnknownField(rep, field_name, value) ==
    AddSuggestion(rep, ValidationResult(
        field_name, "suggestion", "Field '" \o field_name \o "' not in schema", value,
        TypeTag("unknown"), get_actual_type(value),
        "This field may be ignored by the server", PyNone))

\* the declared type is a list of tags
CheckTypeList(rep, field_name, value, tags) ==
    LET actual_type == get_actual_type(value)
    IN  IF ~InTags(actual_type, tags) /\ ~CoercesToAny(value, tags)
        THEN AddError(rep, ValidationResult(
                 field_name, "error",
                 "Type '" \o actual_type \o "' not in allowed types " \o ListToStr(tags),
                 value, TypeTag(ListToStr(tags)), actual_type, NoneStr, PyNone))
        ELSE rep

\* a variant in which a detected null_handling pattern suppresses the finding
CheckTypeTag_pattern_gates(rep, field_name, value, expected_type) ==
    LET actual_type == get_actual_type(value)
        pattern     == detect_pattern(field_name, value, expected_type)
    IN  IF actual_type # expected_type /\ pattern # "null_handling"
        THEN Mismatch(rep, field_name, value, expected_type, actual_type, NoneStr,
                      try_coerce(value, expected_type))
        ELSE rep

\* the declared type is one tag
CheckTypeTag(rep, field_name, value, expected_type) ==
    LET actual_type == get_actual_type(value)
        pattern     == detect_pattern(field_name, value, expected_type)
    IN  IF actual_type # expected_type
        THEN Mismatch(rep, field_name, value, expected_type, actual_type, NoneStr,
                      try_coerce(value, expected_type))
        ELSE rep

\* the body of the loop over arguments.items() when there is a schema
CheckArgument(rep, field_name, value, properties) ==
    IF ~HasKey(properties, field_name)
    THEN UnknownField(rep, field_name, value)
    ELSE LET expected_type == FieldType(DictGet(properties, field_name))
         IN  IF NotType(expected_type) THEN rep
             ELSE IF expected_type.is_list
             THEN CheckTypeList(rep, field_name, value, expected_type.tags)
             ELSE CheckTypeTag(rep, field_name, value, expected_type.tag)

RECURSIVE InferFields(_, _, _)
InferFields(rep, args, i) ==
    IF i > Len(args) THEN rep
    ELSE InferFields(InferField(rep, args[i].key, args[i].value), args, i + 1)

RECURSIVE CheckRequiredFields(_, _, _, _, _)
CheckRequiredFields(rep, required, args, properties, i) ==
    IF i > Len(required) THEN rep
    ELSE CheckRequiredFields(CheckRequired(rep, required[i], args, properties),
                             required, args, properties, i + 1)

RECURSIVE CheckArguments(_, _, _, _)
CheckArguments(rep, args, properties, i) ==
    IF i > Len(args) THEN rep
    ELSE CheckArguments(CheckArgument(rep, args[i].key, args[i].value, properties),
                        args, properties, i + 1)

validate_tool_arguments(tool_name, args, s) ==
    IF NotSchema(s)
    THEN InferFields(EmptyReport, args, 1)
    ELSE LET properties == SchemaProperties(s)
             required   == SchemaRequired(s)
         IN  CheckArguments(CheckRequiredFields(EmptyReport, required, args, properties, 1),
                            args, properties, 1)

(***************************************************************************)
(* check_response_types                                                    *)
(***************************************************************************)
\* a variant that lets a coercible value pass, as the arguments check does
ResponseTypeList_by_coercion(rep, field_name, value, tags) ==
    LET actual_type == get_actual_type(value)
    IN  IF ~InTags(actual_type, tags) /\ ~CoercesToAny(value, tags)
        THEN [rep EXCEPT !.warnings = Append(@, ValidationResult(
                  field_name, "warning",
                  "Response field '" \o field_name \o "' has unexpected type",
                  value, TypeTag(ListToStr(tags)), actual_type, NoneStr, PyNone))]
        ELSE rep

\* the declared type of the response field is a list of tags
ResponseTypeList(rep, field_name, value, tags) ==
    LET actual_type == get_actual_type(value)
    IN  IF ~InTags(actual_type, tags)
        THEN [rep EXCEPT !.warnings = Append(@, ValidationResult(
                  field_name, "warning",
                  "Response field '" \o field_name \o "' has unexpected type",
                  value, TypeTag(ListToStr(tags)), actual_type, NoneStr, PyNone))]
        ELSE rep

\* a variant that reports the mismatch as an error
ResponseTypeTag_as_error(rep, field_name, value, expected_type) ==
    LET actual_type == get_actual_type(value)
        pattern     == detect_pattern(field_name, value, expected_type)
    IN  IF actual_type # expected_type
        THEN AddError(rep, ValidationResult(
                 field_name, "error",
                 "Response field '" \o field_name \o "' has type '" \o actual_type
                     \o "', expected '" \o expected_type \o "'",
                 value, TypeTag(expected_type), actual_type,
                 IF pattern # NoneStr THEN "Pattern detected: " \o pattern ELSE NoneStr,
                 PyNone))
        ELSE rep

\* the declared type of the response field is one tag
ResponseTypeTag(rep, field_name, value, expected_type) ==
    LET actual_type == get_actual_type(value)
        pattern     == detect_pattern(field_name, value, expected_type)
    IN  IF actual_type # expected_type
        THEN [rep EXCEPT !.warnings = Append(@, ValidationResult(
                  field_name, "warning",
                  "Response field '" \o field_name \o "' has type '" \o actual_type
                      \o "', expected '" \o expected_type \o "'",
                  value, TypeTag(expected_type), actual_type,
                  IF pattern # NoneStr THEN "Pattern detected: " \o pattern ELSE NoneStr,
                  PyNone))]
        ELSE rep

\* the body of the loop over response.items()
CheckResponseField(rep, field_name, value, properties) ==
    IF ~HasKey(properties, field_name) THEN rep
    ELSE LET expected_type == FieldType(DictGet(properties, field_name))
         IN  IF NotType(expected_type) THEN rep
             ELSE IF expected_type.is_list
             THEN ResponseTypeList(rep, field_name, value, expected_type.tags)
             ELSE ResponseTypeTag(rep, field_name, value, expected_type.tag)

RECURSIVE CheckResponseFields(_, _, _, _)
CheckResponseFields(rep, items, properties, i) ==
    IF i > Len(items) THEN rep
    ELSE CheckResponseFields(CheckResponseField(rep, items[i].key, items[i].value, properties),
                             items, properties, i + 1)

check_response_types(resp, expected_schema) ==
    IF NotSchema(expected_schema) \/ ~isinstance(resp, "dict")
    THEN EmptyReport
    ELSE CheckResponseFields(EmptyReport, resp.items, SchemaProperties(expected_schema), 1)

(***************************************************************************)
(* Session statistics.  safety_score() returns a float; the model keeps    *)
(* the exact quotient num / den with den > 0.  Python rounds the quotient  *)
(* and then the product to the nearest double, which keeps the order of    *)
(* the scores and the values 0 and 100.                                    *)
(***************************************************************************)
PatternNames ==
    {"timestamp_mismatch", "id_type_mismatch", "amount_format", "boolean_variant", "null_handling"}

\* SessionStats(): every counter at its default
SessionStats ==
    [total_calls |-> 0, validated_calls |-> 0, warnings_issued |-> 0, errors_prevented |-> 0,
     auto_fixes_applied |-> 0, patterns_detected |-> [p \in PatternNames |-> 0]]

Ratio(num, den) == [num |-> num, den |-> den]

RatioLE(a, b) == a.num * b.den <= b.num * a.den

RatioEq(a, b) == a.num * b.den = b.num * a.den

\* max(0, x): x when it is above 0, else the 0 given first
Max0(x) == IF x.num > 0 THEN x ELSE Ratio(0, 1)

\* the quotient returned as it is, without max(0, ...)
safety_score_without_floor(self) ==
    IF self.total_calls = 0 THEN Ratio(100, 1)
    ELSE LET clean_calls == self.total_calls - self.warnings_issued - self.errors_prevented
         IN  Ratio(clean_calls * 100, self.total_calls)

\* the errors added to the clean calls instead of subtracted
safety_score_errors_added(self) ==
    IF self.total_calls = 0 THEN Ratio(100, 1)
    ELSE LET clean_calls == self.total_calls - self.warnings_issued + self.errors_prevented
         IN  Max0(Ratio(clean_calls * 100, self.total_calls))

safety_score(self) ==
    IF self.total_calls = 0 THEN Ratio(100, 1)
    ELSE LET clean_calls == self.total_calls - self.warnings_issued - self.errors_prevented
         IN  Max0(Ratio(clean_calls * 100, self.total_calls))

(***************************************************************************)
(* The calls the model makes                                               *)
(***************************************************************************)
\* the largest number of fields of an arguments or response dict
MaxArgs == 2

\* the longest required list of a schema
MaxRequired == 1

\* the field names of the calls made without a schema: one for each inference
\* group and one that matches no rule
FieldNames == {"user_id", "created_at", "price", "is_active", "name"}

\* the field names of the calls made with a schema
SchemaFieldNames == {"count", "created_at"}

Values ==
    { PyStr("5"), PyStr("abc"), PyStr("2024-01-01T00:00:00Z"), PyInt(1),
      PyBigInt(Big(1704, 67200)), PyTrue, PyNone, PyFloat(BigOf(15), 1) }

\* the dicts of at most MaxArgs items with keys among names, in every insertion order
Dicts(names, values) ==
    UNION { { d \in [1..k -> {Item(f, v) : f \in names, v \in values}] :
                \A i, j \in 1..k : i # j => d[i].key # d[j].key } : k \in 0..MaxArgs }

FieldSchemas ==
    { FieldSchema({"description"}, TypeNone),
      FieldSchema({"type"}, TypeTag("integer")),
      FieldSchema({"type"}, TypeTag("string")),
      FieldSchema({"type"}, TypeTag("boolean")),
      FieldSchema({"type"}, TypeList(<<"string", "integer">>)),
      FieldSchema({"type"}, TypeList(<<"boolean", "integer">>)) }

\* the properties dicts over SchemaFieldNames (only looked up, so one order each)
PropertiesDicts ==
    { d \in UNION { [1..k -> {Item(f, fs) : f \in SchemaFieldNames, fs \in FieldSchemas}] :
                      k \in 0..Cardinality(SchemaFieldNames) } :
        \A i, j \in 1..Len(d) : i < j => d[i].key # d[j].key /\ d[i].key = "count" }

RequiredLists == UNION { [1..k -> SchemaFieldNames] : k \in 0..MaxRequired }

\* the schemas that are dicts with at least one key
Schemas ==
    { Schema({"type"}, <<>>, <<>>) }
    \cup { Schema({"properties"}, ps, <<>>) : ps \in PropertiesDicts }
    \cup { Schema({"required"}, <<>>, rs) : rs \in RequiredLists }
    \cup { Schema({"properties", "required"}, ps, rs) :
             ps \in PropertiesDicts, rs \in RequiredLists }

EmptySchema == Schema({}, <<>>, <<>>)

NonDictResponses == { PyNone, PyStr("5"), PyInt(1), PyList }

NoReport == [none |-> TRUE]

NoArguments == <<>>

NoInputs == [none |-> TRUE]

NoScore == [none |-> TRUE]

\* the caller of the two entry points calls nothing else and keeps no statistics
Init ==
    /\ report = NoReport
    /\ inputs = NoInputs /\ calls = <<>>
    /\ stats = SessionStats /\ score = NoScore
    /\ \/ /\ entry = "validate_tool_arguments"
          /\ response = PyNone
          /\ \/ schema \in {NoSchema, EmptySchema} /\ arguments \in Dicts(FieldNames, Values)
             \/ schema \in Schemas /\ arguments \in Dicts(SchemaFieldNames, Values)
       \/ /\ entry = "check_response_types"
          /\ arguments = NoArguments
          /\ schema \in {NoSchema, EmptySchema} \cup Schemas
          /\ response \in {PyDict(d) : d \in Dicts(SchemaFieldNames, Values)}
                          \cup NonDictResponses

ValidateToolArguments ==
    /\ entry = "validate_tool_arguments"
    /\ report = NoReport
    /\ report' = validate_tool_arguments("t", arguments, schema)
    /\ UNCHANGED <<entry, arguments, response, schema, inputs, calls, stats, score>>

CheckResponseTypes ==
    /\ entry = "check_response_types"
    /\ report = NoReport
    /\ report' = check_response_types(response, schema)
    /\ UNCHANGED <<entry, arguments, response, schema, inputs, calls, stats, score>>

Next == ValidateToolArguments \/ CheckResponseTypes

Spec == Init /\ [][Next]_vars

(***************************************************************************)
(* The calls of the type classifier, the pattern classifier and the        *)
(* coercion engine: a caller calls one of the three functions, and may     *)
(* hand a value that try_coerce returned to try_coerce again.              *)
(***************************************************************************)
\* the longest chain of try_coerce calls
MaxCalls == 2

TargetTypes ==
    {"null", "boolean", "integer", "number", "string", "array", "object", "unknown", "datetime"}

PureFieldNames == {"user_id", "created_at", "total_amount", "is_active", "field"}

PureValues ==
    { PyNone, PyTrue, PyFalse,
      PyInt(0), PyInt(1), PyInt(2), PyInt(123), PyBigInt(BigNeg(BigOf(42))),
      PyBigInt(Big(999, 999999)),          \* 999999999: below the seconds window
      PyBigInt(Big(1704, 67200)),          \* 1704067200: 2024-01-01T00:00:00Z in seconds
      PyBigInt(Big(2500, 1)),              \* 2500000001: between the windows
      PyBigInt(Big(1704067, 200123)),      \* 1704067200123: milliseconds
      PyIntTimesTenTo(BigOf(1), 309),      \* 10 ** 309
      PyFloat(BigOf(0), 0), PyFloat(BigOf(1), 0), PyFloat(BigOf(15), 1), PyFloat(BigOf(314), 2),
      PyStr("1"), PyStr("0"), PyStr("true"), PyStr("True"), PyStr("yes"), PyStr("Yes"),
      PyStr("false"), PyStr("False"), PyStr("no"), PyStr("No"), PyStr("TRUE"),
      PyStr(""), PyStr("abc"), PyStr("123"), PyStr("-7"), PyStr(" 42 "), PyStr("1_000"),
      PyStr("3.14"), PyStr("12.5abc"), PyStr("1599"), PyStr("1704067200"),
      PyStr("null"), PyStr("undefined"), PyStr("None"),
      PyStr("2024-01-01T00:00:00Z"), PyStr("2024-01-01"), PyStr("2024-01-01 00:00:00"),
      PyList, PyDict(<<>>), PyOther }

\* names of each group in several spellings, names that rules of two groups match,
\* and names that no rule matches
InferFieldNames ==
    { "user_id", "userId", "USER_ID", "id", "ID", "item_count", "order_total", "num",
      "created_at", "Created_At", "start_time", "timestamp", "myTimestamp2", "created",
      "birth_date", "total_amount", "price", "unit_cost", "tax_rate", "a_percent_b",
      "is_active", "Is_Active", "has_permission", "can_edit", "feature_enabled", "x_flag",
      "price_id", "is_valid", "paid", "amount_at", "is_price", "cost_total", "has_time",
      "random_field", "data", "value", "identity", "", "counts" }

\* the ints around the bounds of both windows and around 1e11
TimestampInts ==
    { PyBigInt(Big(hi, lo)) :
        hi \in {0, 999, 1000, 1704, 2499, 2500, 2501, 3000, 99999, 100000, 999999, 1000000,
                1704067, 2499999, 2500000, 2500001},
        lo \in {0, 1, 67200, 999999} }
    \cup { PyInt(123), PyBigInt(BigNeg(Big(1704, 67200))), PyIntTimesTenTo(BigOf(1), 309),
           PyTrue, PyFalse }

Inputs(field_name, value, target_type) ==
    [field_name |-> field_name, value |-> value, target_type |-> target_type]

\* a call that returned (or raised): its function, its arguments and its outcome
Call(fn, args, result) == [fn |-> fn, args |-> args, result |-> result]

InitPure ==
    /\ arguments = NoArguments /\ response = PyNone /\ schema = NoSchema
    /\ report = NoReport
    /\ stats = SessionStats /\ score = NoScore
    /\ calls = <<>>
    /\ \/ /\ entry = "get_actual_type"
          /\ inputs \in {Inputs("", v, "") : v \in PureValues}
       \/ /\ entry = "detect_pattern"
          /\ inputs \in {Inputs(f, v, t) : f \in PureFieldNames, v \in PureValues,
                                             t \in TargetTypes}
       \/ /\ entry = "try_coerce"
          /\ inputs \in {Inputs("", v, t) : v \in PureValues, t \in TargetTypes}
       \/ /\ entry = "infer_type_from_field_name"
          /\ inputs \in {Inputs(f, PyNone, "") : f \in InferFieldNames}
       \/ /\ entry = "looks_like_unix_timestamp"
          /\ inputs \in {Inputs("", v, "") : v \in TimestampInts}

GetActualType ==
    /\ entry = "get_actual_type"
    /\ calls = <<>>
    /\ calls' = <<Call(entry, inputs, get_actual_type(inputs.value))>>
    /\ UNCHANGED <<entry, arguments, response, schema, report, inputs, stats, score>>

DetectPattern ==
    /\ entry = "detect_pattern"
    /\ calls = <<>>
    /\ calls' = <<Call(entry, inputs,
                       detect_pattern(inputs.field_name, inputs.value, inputs.target_type))>>
    /\ UNCHANGED <<entry, arguments, response, schema, report, inputs, stats, score>>

TryCoerce ==
    /\ entry = "try_coerce"
    /\ calls = <<>>
    /\ calls' = <<Call(entry, inputs, try_coerce(inputs.value, inputs.target_type))>>
    /\ UNCHANGED <<entry, arguments, response, schema, report, inputs, stats, score>>

\* the pairs hold the ints of at most 15 digits: the model parses no longer text
InRange(value) == value.tag = "str" => Len(value.s) <= 15

\* the caller coerces the value that its last, successful try_coerce returned
TryCoerceReturned ==
    /\ entry = "try_coerce"
    /\ calls # <<>>
    /\ Len(calls) < MaxCalls
    /\ LET last == calls[Len(calls)].result
       IN  /\ "raised" \notin DOMAIN last
           /\ last.success
           /\ InRange(last.value)
           /\ \E t \in TargetTypes :
                 calls' = Append(calls, Call(entry, Inputs("", last.value, t),
                                             try_coerce(last.value, t)))
    /\ UNCHANGED <<entry, arguments, response, schema, report, inputs, stats, score>>

InferTypeFromFieldName ==
    /\ entry = "infer_type_from_field_name"
    /\ calls = <<>>
    /\ calls' = <<Call(entry, inputs, infer_type_from_field_name(inputs.field_name))>>
    /\ UNCHANGED <<entry, arguments, response, schema, report, inputs, stats, score>>

LooksLikeUnixTimestamp ==
    /\ entry = "looks_like_unix_timestamp"
    /\ calls = <<>>
    /\ calls' = <<Call(entry, inputs, looks_like_unix_timestamp(inputs.value))>>
    /\ UNCHANGED <<entry, arguments, response, schema, report, inputs, stats, score>>

NextPure ==
    \/ GetActualType
    \/ DetectPattern
    \/ TryCoerce
    \/ TryCoerceReturned
    \/ InferTypeFromFieldName
    \/ LooksLikeUnixTimestamp

SpecPure == InitPure /\ [][NextPure]_vars

(***************************************************************************)
(* The caller's bookkeeping: it adds to the counters of its SessionStats   *)
(* after its calls and asks for the score.                                 *)
(***************************************************************************)
\* the largest value a counter takes
MaxCount == 4

\* what a caller adds to a counter in one step
Increments == 1..2

InitStats ==
    /\ entry = "SessionStats"
    /\ arguments = NoArguments /\ response = PyNone /\ schema = NoSchema
    /\ report = NoReport
    /\ inputs = NoInputs /\ calls = <<>>
    /\ stats = SessionStats
    /\ score = NoScore

IncrementTotalCalls ==
    /\ \E k \in Increments :
          /\ stats.total_calls + k <= MaxCount
          /\ stats' = [stats EXCEPT !.total_calls = @ + k]
    /\ UNCHANGED <<entry, arguments, response, schema, report, inputs, calls, score>>

IncrementWarningsIssued ==
    /\ \E k \in Increments :
          /\ stats.warnings_issued + k <= MaxCount
          /\ stats' = [stats EXCEPT !.warnings_issued = @ + k]
    /\ UNCHANGED <<entry, arguments, response, schema, report, inputs, calls, score>>

IncrementErrorsPrevented ==
    /\ \E k \in Increments :
          /\ stats.errors_prevented + k <= MaxCount
          /\ stats' = [stats EXCEPT !.errors_prevented = @ + k]
    /\ UNCHANGED <<entry, arguments, response, schema, report, inputs, calls, score>>

\* one call counted as a warning and as an error
CountWarningAndError ==
    /\ stats.warnings_issued < MaxCount
    /\ stats.errors_prevented < MaxCount
    /\ stats' = [stats EXCEPT !.warnings_issued = @ + 1, !.errors_prevented = @ + 1]
    /\ UNCHANGED <<entry, arguments, response, schema, report, inputs, calls, score>>

\* the caller reads the score: the counters at the call and what it returned
SafetyScore ==
    /\ score' = [self |-> stats, returned |-> safety_score(stats)]
    /\ UNCHANGED <<entry, arguments, response, schema, report, inputs, calls, stats>>

NextStats ==
    \/ IncrementTotalCalls
    \/ IncrementWarningsIssued
    \/ IncrementErrorsPrevented
    \/ CountWarningAndError
    \/ SafetyScore

SpecStats == InitStats /\ [][NextStats]_vars

(***************************************************************************)
(* Properties                                                              *)
(***************************************************************************)
Validated == entry = "validate_tool_arguments" /\ report # NoReport

Checked == entry = "check_response_types" /\ report # NoReport

\* the number of findings of a list that are about the field f
CountField(results, f) == Cardinality({j \in 1..Len(results) : results[j].field = f})

\* the findings of a list that are about the field f
ForField(results, f) == {results[j] : j \in {k \in 1..Len(results) : results[k].field = f}}

Findings(f) ==
    CountField(report.warnings, f) + CountField(report.errors, f)
        + CountField(report.suggestions, f)

\* f has exactly one finding, a warning that carries the auto-fix fix, recorded under f
OneWarning(f, fix) ==
    /\ Findings(f) = 1
    /\ \E w \in ForField(report.warnings, f) : w.auto_fix = fix /\ w.severity = "warning"
    /\ HasKey(report.auto_fixes, f) /\ DictGet(report.auto_fixes, f) = fix

\* f has exactly one finding, an error, and the report is invalid
OneError(f) ==
    /\ Findings(f) = 1
    /\ CountField(report.errors, f) = 1
    /\ ~report.valid
    /\ ~HasKey(report.auto_fixes, f)

IntegerCount == Schema({"properties"}, <<Item("count", FieldSchema({"type"}, TypeTag("integer")))>>, <<>>)

\* C1: the report of validate_tool_arguments is valid exactly when it has no error
C1_ValidIffNoErrors == Validated => (report.valid <=> report.errors = <<>>)

C1_Witness == Validated /\ report.errors # <<>> /\ report.warnings # <<>> /\ ~report.valid

\* C2: the keys of auto_fixes are exactly the fields of the warnings; each entry has
\* exactly one warning for its field, whose auto_fix is not None and is the entry's value
C2_AutoFixesAreWarnings ==
    Validated =>
        /\ Keys(report.auto_fixes) = {report.warnings[j].field : j \in 1..Len(report.warnings)}
        /\ \A i \in 1..Len(report.auto_fixes) :
              /\ CountField(report.warnings, report.auto_fixes[i].key) = 1
              /\ \A w \in ForField(report.warnings, report.auto_fixes[i].key) :
                    w.auto_fix # PyNone /\ w.auto_fix = report.auto_fixes[i].value
        /\ \A i, j \in 1..Len(report.auto_fixes) :
              i # j => report.auto_fixes[i].key # report.auto_fixes[j].key

C2_Witness == Validated /\ Len(report.auto_fixes) = 2 /\ report.errors = <<>>

\* C3: with a schema, a field declared with one tag that its value's type differs from
\* gets exactly one finding, by the success of try_coerce alone: a warning with the
\* coerced value as auto-fix, or an error that makes the report invalid
C3_SingleTagMismatch ==
    (Validated /\ ~NotSchema(schema)) =>
        /\ \A i \in 1..Len(arguments) :
              LET f     == arguments[i].key
                  v     == arguments[i].value
                  props == SchemaProperties(schema)
                  type  == FieldType(DictGet(props, f))
              IN  (HasKey(props, f) /\ ~NotType(type) /\ ~type.is_list
                       /\ get_actual_type(v) # type.tag) =>
                      IF try_coerce(v, type.tag).success
                      THEN /\ OneWarning(f, try_coerce(v, type.tag).value)
                           /\ (Len(arguments) = 1 /\ SchemaRequired(schema) = <<>>)
                                  => report.valid
                      ELSE OneError(f)
        /\ (arguments = <<Item("count", PyStr("5"))>> /\ schema = IntegerCount) =>
              /\ report.valid /\ Len(report.warnings) = 1 /\ report.errors = <<>>
              /\ report.auto_fixes = <<Item("count", PyInt(5))>>
        /\ (arguments = <<Item("count", PyStr("abc"))>> /\ schema = IntegerCount) =>
              /\ ~report.valid /\ Len(report.errors) = 1 /\ report.warnings = <<>>
              /\ report.auto_fixes = <<>>

C3_Witness ==
    /\ Validated /\ schema = IntegerCount
    /\ arguments = <<Item("count", PyStr("5")), Item("created_at", PyNone)>>
    /\ report.valid /\ report.auto_fixes = <<Item("count", PyInt(5))>>

\* the expected type of the error for a missing required field r
DeclaredOrUnknown(r) ==
    IF HasKey(SchemaProperties(schema), r)
           /\ "type" \in DictGet(SchemaProperties(schema), r).keys
    THEN DictGet(SchemaProperties(schema), r).type
    ELSE TypeTag("unknown")

IsMissingError(e, r) ==
    e.field = r /\ e.severity = "error" /\ e.actual_type = "missing"
        /\ Contains(e.message, "missing")

\* C4: with a schema, each required name that is no key of arguments has an error
\* saying it is missing, with the declared type or "unknown" as expected type, and the
\* report is invalid; a required name that is a key has no such error
C4_MissingRequired ==
    (Validated /\ ~NotSchema(schema)) =>
        \A i \in 1..Len(SchemaRequired(schema)) :
            LET r == SchemaRequired(schema)[i]
            IN  IF ~HasKey(arguments, r)
                THEN /\ ~report.valid
                     /\ \E e \in ForField(report.errors, r) : IsMissingError(e, r)
                     /\ \A e \in ForField(report.errors, r) :
                           IsMissingError(e, r) /\ e.expected_type = DeclaredOrUnknown(r)
                ELSE \A e \in ForField(report.errors, r) :
                         e.actual_type # "missing" /\ ~Contains(e.message, "missing")

C4_Witness ==
    /\ Validated /\ Len(report.errors) = 1
    /\ report.errors[1].actual_type = "missing"
    /\ report.errors[1].expected_type = TypeTag("integer")
    /\ arguments # <<>>

Undeclared(f) == ~HasKey(SchemaProperties(schema), f)

\* C5: with a schema, a field of arguments that the properties do not declare gets
\* exactly one suggestion and nothing else, and cannot make the report invalid
C5_UndeclaredField ==
    (Validated /\ ~NotSchema(schema)) =>
        /\ \A i \in 1..Len(arguments) :
              Undeclared(arguments[i].key) =>
                  /\ CountField(report.suggestions, arguments[i].key) = 1
                  /\ Findings(arguments[i].key) = 1
                  /\ ~HasKey(report.auto_fixes, arguments[i].key)
        /\ ( /\ \A i \in 1..Len(arguments) : Undeclared(arguments[i].key)
             /\ \A i \in 1..Len(SchemaRequired(schema)) :
                   HasKey(arguments, SchemaRequired(schema)[i]) )
               => report.valid /\ report.errors = <<>> /\ report.warnings = <<>>

C5_Witness ==
    /\ Validated /\ ~NotSchema(schema)
    /\ arguments = <<Item("count", PyStr("abc")), Item("created_at", PyStr("5"))>>
    /\ Len(report.suggestions) = 2 /\ report.valid

\* C6: with a schema, a field declared with a list of tags has no finding when its
\* value's type is in the list or try_coerce succeeds for some listed tag, and
\* otherwise exactly one error that names every listed tag and makes the report invalid
C6_TagList ==
    (Validated /\ ~NotSchema(schema)) =>
        \A i \in 1..Len(arguments) :
            LET f     == arguments[i].key
                v     == arguments[i].value
                props == SchemaProperties(schema)
                type  == FieldType(DictGet(props, f))
            IN  (HasKey(props, f) /\ type.is_list /\ type.tags # <<>>) =>
                    IF \/ \E k \in 1..Len(type.tags) : type.tags[k] = get_actual_type(v)
                       \/ \E k \in 1..Len(type.tags) : try_coerce(v, type.tags[k]).success
                    THEN Findings(f) = 0 /\ ~HasKey(report.auto_fixes, f)
                    ELSE /\ OneError(f)
                         /\ \A e \in ForField(report.errors, f) :
                               \A k \in 1..Len(type.tags) :
                                   /\ Contains(e.message, "'" \o type.tags[k] \o "'")
                                   /\ Contains(e.expected_type.tag, "'" \o type.tags[k] \o "'")

C6_Witness ==
    /\ Validated
    /\ schema = Schema({"properties"},
                       <<Item("count", FieldSchema({"type"}, TypeList(<<"boolean", "integer">>)))>>,
                       <<>>)
    /\ arguments = <<Item("count", PyStr("5")), Item("created_at", PyInt(1))>>
    /\ report.valid /\ report.warnings = <<>> /\ report.auto_fixes = <<>>

\* C7: without a schema, a field has a finding only when its name infers a type that
\* its value's type differs from: a warning with the auto-fix when try_coerce
\* succeeds, an error that makes the report invalid when it fails
C7_NoSchemaInference ==
    (Validated /\ schema = NoSchema) =>
        /\ \A i \in 1..Len(arguments) :
              LET f == arguments[i].key
                  v == arguments[i].value
                  t == infer_type_from_field_name(f)
              IN  IF t = NoneStr \/ get_actual_type(v) = t
                  THEN Findings(f) = 0 /\ ~HasKey(report.auto_fixes, f)
                  ELSE IF try_coerce(v, t).success
                       THEN OneWarning(f, try_coerce(v, t).value)
                       ELSE OneError(f)
        /\ arguments = <<Item("user_id", PyStr("5"))>> =>
              /\ report.valid /\ Len(report.warnings) = 1
              /\ report.auto_fixes = <<Item("user_id", PyInt(5))>>

C7_Witness ==
    /\ Validated /\ schema = NoSchema
    /\ arguments = <<Item("user_id", PyStr("5")), Item("name", PyInt(1))>>
    /\ report.valid /\ report.auto_fixes = <<Item("user_id", PyInt(5))>>
    /\ Len(report.warnings) = 1

\* C8: without a schema, a field whose name infers datetime is never checked against
\* the tag "datetime", and a string or an integer value of it is not rejected for
\* having another tag than datetime
C8_DatetimeNotLiteral ==
    (Validated /\ schema = NoSchema) =>
        \A i \in 1..Len(arguments) :
            (/\ infer_type_from_field_name(arguments[i].key) = "datetime"
             /\ get_actual_type(arguments[i].value) \in {"string", "integer"}) =>
                \A e \in ForField(report.errors, arguments[i].key) :
                    e.expected_type # TypeTag("datetime")

\* C9: the report of check_response_types is valid, with no error and no auto-fix,
\* and is empty when the schema is absent or the response is no dict
C9_ResponseNeverInvalid ==
    Checked =>
        /\ report.valid /\ report.errors = <<>> /\ report.auto_fixes = <<>>
        /\ (schema = NoSchema \/ response.tag # "dict") => report = EmptyReport

C9_Witness ==
    /\ Checked /\ ~NotSchema(schema) /\ Len(report.warnings) = 2
    /\ report.valid /\ report.errors = <<>>

\* the response field of this item is declared with a type that its value does not have
ResponseMismatch(item) ==
    LET props == SchemaProperties(schema)
        type  == FieldType(DictGet(props, item.key))
    IN  /\ HasKey(props, item.key)
        /\ ~NotType(type)
        /\ IF type.is_list
           THEN \A k \in 1..Len(type.tags) : type.tags[k] # get_actual_type(item.value)
           ELSE type.tag # get_actual_type(item.value)

\* C10: check_response_types has exactly one warning for each response field that the
\* schema declares with a type its value does not have, and no other finding
C10_ResponseWarnings ==
    (Checked /\ response.tag = "dict" /\ ~NotSchema(schema)) =>
        /\ \A i \in 1..Len(response.items) :
              /\ CountField(report.warnings, response.items[i].key)
                     = IF ResponseMismatch(response.items[i]) THEN 1 ELSE 0
              /\ Findings(response.items[i].key)
                     = CountField(report.warnings, response.items[i].key)
        /\ Len(report.warnings)
               = Cardinality({i \in 1..Len(response.items) : ResponseMismatch(response.items[i])})
        /\ report.suggestions = <<>>
        /\ (response = PyDict(<<Item("count", PyStr("5"))>>) /\ schema = IntegerCount)
               => Len(report.warnings) = 1

C10_Witness ==
    /\ Checked
    /\ schema = Schema({"properties"},
                       <<Item("count", FieldSchema({"type"}, TypeList(<<"boolean", "integer">>))),
                         Item("created_at", FieldSchema({"type"}, TypeTag("string")))>>,
                       <<>>)
    /\ response = PyDict(<<Item("count", PyStr("5")),
                           Item("created_at", PyStr("2024-01-01T00:00:00Z"))>>)
    /\ Len(report.warnings) = 1 /\ report.warnings[1].field = "count"

(***************************************************************************)
(* Properties of the coercion engine, the classifiers and the statistics   *)
(***************************************************************************)
\* the call returned: no exception left it
Returns(c) == "raised" \notin DOMAIN c.result

TypesMatched(c) == get_actual_type(c.args.value) = c.args.target_type

\* C11 (as stated): when the tag of the value is the target, try_coerce returns
\* success, the value unchanged and the message "types match", before any other rule
C11_TypesMatch ==
    entry = "try_coerce" =>
        \A i \in 1..Len(calls) :
            TypesMatched(calls[i]) =>
                calls[i].result = Coerced(TRUE, calls[i].args.value, "types match")

\* C11 (amended): when the tag of the value is the target, try_coerce returns success,
\* the value unchanged and the message "Types match", before any other rule
C11_TypesMatchCapital ==
    entry = "try_coerce" =>
        \A i \in 1..Len(calls) :
            TypesMatched(calls[i]) =>
                calls[i].result = Coerced(TRUE, calls[i].args.value, "Types match")

\* True to boolean: the types match where the boolean rule would apply as well
C11_Witness ==
    /\ entry = "try_coerce"
    /\ \E i \in 1..Len(calls) :
          /\ calls[i].args.value = PyTrue /\ calls[i].args.target_type = "boolean"
          /\ calls[i].result.success

\* the whole seconds of a timestamp: values above 1e11 are milliseconds
WholeSeconds(value) ==
    IF BigLT(Big(100000, 0), value.n)
    THEN <<value.n[1] \div 1000, (value.n[1] % 1000) * 1000 + (value.n[2] \div 1000)>>
    ELSE value.n

\* YYYY-MM-DDTHH:MM:SSZ
IsIsoZ(s) == Len(s) = 20 /\ MatchesDigitsTemplate(s, "dddd-dd-ddTdd:dd:ddZ")

\* C12: try_coerce to "string" of an integer that passes the timestamp detector gives
\* the ISO-8601 UTC string YYYY-MM-DDTHH:MM:SSZ of its instant (1704067200 gives
\* "2024-01-01T00:00:00Z"); other integers and floats give their decimal string
C12_TimestampToString ==
    entry = "try_coerce" =>
        \A i \in 1..Len(calls) :
            LET c == calls[i]
                v == c.args.value
            IN  (c.args.target_type = "string" /\ get_actual_type(v) \in {"integer", "number"}) =>
                    /\ Returns(c)
                    /\ c.result.success
                    /\ IF get_actual_type(v) = "integer" /\ looks_like_unix_timestamp(v)
                       THEN /\ c.result.value.tag = "str"
                            /\ IsIsoZ(c.result.value.s)
                            /\ iso8601_to_unix(c.result.value.s).n = WholeSeconds(v)
                            /\ v = PyBigInt(Big(1704, 67200))
                                   => c.result.value = PyStr("2024-01-01T00:00:00Z")
                       ELSE c.result.value = PyStr(ToStr(v))

\* C13: try_coerce to "integer" of a string that passes the ISO-8601 detector and
\* parses (here: one that spells the UTC offset Z) gives the whole-second Unix time of
\* its instant ("2024-01-01T00:00:00Z" gives 1704067200)
C13_Iso8601ToInteger ==
    entry = "try_coerce" =>
        \A i \in 1..Len(calls) :
            LET c == calls[i]
                v == c.args.value
            IN  (/\ c.args.target_type = "integer" /\ v.tag = "str"
                 /\ looks_like_iso8601(v.s) /\ EndsWith(v.s, "Z")
                 /\ iso8601_to_unix(v.s).ok) =>
                    /\ c.result.success
                    /\ c.result.value = PyBigInt(iso8601_to_unix(v.s).n)
                    /\ v = PyStr("2024-01-01T00:00:00Z")
                           => c.result.value = PyBigInt(Big(1704, 67200))

\* C14: an integer t that passes the timestamp detector is coerced to a string, and
\* that string is coerced to "integer" as t in whole seconds
C14_RoundTrip ==
    (/\ entry = "try_coerce" /\ calls # <<>>
     /\ inputs.target_type = "string" /\ get_actual_type(inputs.value) = "integer"
     /\ looks_like_unix_timestamp(inputs.value)) =>
        /\ calls[1].result.success
        /\ calls[1].result.value.tag = "str"
        /\ (Len(calls) >= 2 /\ calls[2].args.target_type = "integer") =>
              /\ calls[2].result.success
              /\ calls[2].result.value = PyBigInt(WholeSeconds(inputs.value))

\* C15: try_coerce never raises, and a failed coercion returns the value it was given
C15_FailureReturnsOriginal ==
    entry = "try_coerce" =>
        \A i \in 1..Len(calls) :
            /\ Returns(calls[i])
            /\ ~calls[i].result.success => calls[i].result.value = calls[i].args.value

TrueVariants == {PyInt(1), PyStr("1"), PyStr("true"), PyStr("True"), PyStr("yes"), PyStr("Yes")}

FalseVariants ==
    {PyInt(0), PyStr("0"), PyStr("false"), PyStr("False"), PyStr("no"), PyStr("No")}

\* C16: try_coerce to "boolean" of a value that is no boolean gives true exactly for
\* 1, "1", "true", "True", "yes", "Yes", false exactly for 0, "0", "false", "False",
\* "no", "No", and fails with the value unchanged for every other value
C16_BooleanVariants ==
    entry = "try_coerce" =>
        \A i \in 1..Len(calls) :
            LET c == calls[i]
                v == c.args.value
            IN  (c.args.target_type = "boolean" /\ get_actual_type(v) # "boolean") =>
                    /\ (c.result.success /\ c.result.value = PyTrue) <=> v \in TrueVariants
                    /\ (c.result.success /\ c.result.value = PyFalse) <=> v \in FalseVariants
                    /\ v \notin TrueVariants \cup FalseVariants
                           => ~c.result.success /\ c.result.value = v

TypeTags == {"null", "boolean", "integer", "number", "string", "array", "object", "unknown"}

\* the tag of the values of each Python class
TagOfClass ==
    [NoneType |-> "null", bool |-> "boolean", int |-> "integer", float |-> "number",
     str |-> "string", list |-> "array", dict |-> "object", other |-> "unknown"]

\* C17: get_actual_type gives every value one of the eight tags, the tag of its class,
\* and gives True and False "boolean", never "integer"
C17_OneTagPerValue ==
    entry = "get_actual_type" =>
        \A i \in 1..Len(calls) :
            /\ calls[i].result \in TypeTags
            /\ calls[i].result = TagOfClass[calls[i].args.value.tag]
            /\ calls[i].args.value \in {PyTrue, PyFalse}
                   => calls[i].result = "boolean" /\ calls[i].result # "integer"

C17_Witness ==
    /\ entry = "get_actual_type"
    /\ calls # <<>>
    /\ calls[1].args.value = PyTrue
    /\ calls[1].result = "boolean"

\* C18: safety_score() is between 0 and 100: 100 without calls, else
\* (total_calls - warnings_issued - errors_prevented) / total_calls * 100, and 0 when
\* that is negative
C18_ScoreRange ==
    (entry = "SessionStats" /\ score # NoScore) =>
        LET self  == score.self
            clean == self.total_calls - self.warnings_issued - self.errors_prevented
        IN  /\ RatioLE(Ratio(0, 1), score.returned)
            /\ RatioLE(score.returned, Ratio(100, 1))
            /\ self.total_calls = 0 => RatioEq(score.returned, Ratio(100, 1))
            /\ (self.total_calls > 0 /\ clean >= 0)
                   => RatioEq(score.returned, Ratio(clean * 100, self.total_calls))
            /\ (self.total_calls > 0 /\ clean < 0) => RatioEq(score.returned, Ratio(0, 1))

\* more warnings and errors than calls: the score is 0
C18_Witness ==
    /\ entry = "SessionStats"
    /\ score # NoScore
    /\ score.self.total_calls > 0
    /\ score.self.warnings_issued + score.self.errors_prevented > score.self.total_calls
    /\ RatioEq(score.returned, Ratio(0, 1))

\* the score falls by k hundredths of the calls: old - new = k * 100 / total_calls
FallsBy(old, new, k, total_calls) ==
    (old.num * new.den - new.num * old.den) * total_calls = k * 100 * old.den * new.den

\* C19: with total_calls > 0 unchanged, a step that adds to warnings_issued or to
\* errors_prevented never raises safety_score(); while the score stays above the floor
\* one more warning or error lowers it by 100 / total_calls, and a call counted as
\* both lowers it by twice that
C19_ScoreMonotone ==
    [][ (/\ stats.total_calls > 0
         /\ stats'.total_calls = stats.total_calls
         /\ stats'.warnings_issued >= stats.warnings_issued
         /\ stats'.errors_prevented >= stats.errors_prevented) =>
            LET added == (stats'.warnings_issued - stats.warnings_issued)
                            + (stats'.errors_prevented - stats.errors_prevented)
                clean == stats'.total_calls - stats'.warnings_issued - stats'.errors_prevented
            IN  /\ RatioLE(safety_score(stats'), safety_score(stats))
                /\ clean >= 0 =>
                      FallsBy(safety_score(stats), safety_score(stats'), added,
                              stats.total_calls)
                /\ (/\ clean >= 0
                    /\ stats'.warnings_issued = stats.warnings_issued + 1
                    /\ stats'.errors_prevented = stats.errors_prevented + 1) =>
                      FallsBy(safety_score(stats), safety_score(stats'), 2, stats.total_calls)
      ]_vars

\* a call was counted as a warning and as an error after a score of 100 was read
C19_Witness ==
    /\ entry = "SessionStats"
    /\ stats.total_calls = 4 /\ stats.warnings_issued = 1 /\ stats.errors_prevented = 1
    /\ score # NoScore
    /\ score.self.total_calls = 4 /\ score.self.warnings_issued = 0
    /\ score.self.errors_prevented = 0

PatternOrder ==
    <<"timestamp_mismatch", "id_type_mismatch", "amount_format", "boolean_variant",
      "null_handling">>

\* the condition of each pattern on the arguments a of a detect_pattern call
PatternHolds(p, a) ==
    LET actual == TagOfClass[a.value.tag]
    IN  CASE p = "timestamp_mismatch" ->
                \/ /\ a.target_type = "string" /\ actual = "integer"
                   /\ looks_like_unix_timestamp(a.value)
                \/ /\ a.target_type = "integer" /\ actual = "string"
                   /\ looks_like_iso8601(a.value.s)
          [] p = "id_type_mismatch" ->
                /\ Contains(StrLower(a.field_name), "id")
                /\ a.target_type = "integer" /\ actual = "string"
          [] p = "amount_format" ->
                actual = "string" /\ looks_like_cents_string(a.value.s, a.field_name)
          [] p = "boolean_variant" ->
                /\ a.target_type = "boolean"
                /\ PyIn(a.value, << PyStr("true"), PyStr("false"), PyStr("True"),
                                    PyStr("False"), PyStr("1"), PyStr("0"), PyInt(1),
                                    PyInt(0) >>)
          [] p = "null_handling" ->
                PyIn(a.value, << PyNone, PyStr(""), PyStr("null"), PyStr("undefined"),
                                 PyStr("None") >>)

\* C20: detect_pattern returns the first pattern, in the order timestamp_mismatch,
\* id_type_mismatch, amount_format, boolean_variant, null_handling, whose condition
\* holds, and nothing when none holds; "user_id" with an ISO-8601 string where an
\* integer is expected is a timestamp_mismatch
C20_FirstPatternWins ==
    entry = "detect_pattern" =>
        \A i \in 1..Len(calls) :
            LET c        == calls[i]
                matching == {k \in 1..Len(PatternOrder) : PatternHolds(PatternOrder[k], c.args)}
            IN  /\ matching = {} => c.result = NoneStr
                /\ matching # {} =>
                      c.result = PatternOrder[CHOOSE k \in matching : \A j \in matching : k <= j]
                /\ c.args = Inputs("user_id", PyStr("2024-01-01T00:00:00Z"), "integer")
                       => c.result = "timestamp_mismatch"

\* the timestamp condition and the id condition hold together
C20_Witness ==
    /\ entry = "detect_pattern"
    /\ calls # <<>>
    /\ PatternHolds("timestamp_mismatch", calls[1].args)
    /\ PatternHolds("id_type_mismatch", calls[1].args)
    /\ calls[1].result = "timestamp_mismatch"

GroupOrder == <<"integer", "datetime", "number", "boolean">>

\* some rule of the group of type t matches the name, whatever its case
TypeMatches(t, name) ==
    \E g \in 1..Len(FIELD_PATTERNS) :
        FIELD_PATTERNS[g].type = t /\ GroupMatches(FIELD_PATTERNS[g], StrLower(name))

\* what the names of the examples infer
InferExamples ==
    [user_id |-> "integer", userId |-> "integer", USER_ID |-> "integer",
     Created_At |-> "datetime", Is_Active |-> "boolean", total_amount |-> "number",
     price_id |-> "integer", is_valid |-> "integer", amount_at |-> "datetime",
     is_price |-> "number", random_field |-> NoneStr]

\* C21: infer_type_from_field_name returns the type of the first group, in the order
\* integer, datetime, number, boolean, that has a rule matching the name without
\* regard to case, and None when no rule matches; "price_id" and "is_valid", which
\* rules of two groups match, are integer
C21_FirstGroupWins ==
    entry = "infer_type_from_field_name" =>
        \A i \in 1..Len(calls) :
            LET name     == calls[i].args.field_name
                matching == {k \in 1..Len(GroupOrder) : TypeMatches(GroupOrder[k], name)}
            IN  /\ matching = {} => calls[i].result = NoneStr
                /\ matching # {} =>
                      calls[i].result
                          = GroupOrder[CHOOSE k \in matching : \A j \in matching : k <= j]
                /\ name \in DOMAIN InferExamples => calls[i].result = InferExamples[name]

\* the name ends in _id and contains price: integer, the earlier group
C21_Witness ==
    /\ entry = "infer_type_from_field_name"
    /\ calls # <<>>
    /\ calls[1].args.field_name = "price_id"
    /\ TypeMatches("integer", "price_id") /\ TypeMatches("number", "price_id")
    /\ calls[1].result = "integer"

\* 1000000000 <= n <= 2500000000, on the pair of n
InSecondsWindow(n) == n[1] \in 1000..2499 \/ (n[1] = 2500 /\ n[2] = 0)

\* 1000000000000 <= n <= 2500000000000, on the pair of n
InMillisecondsWindow(n) == n[1] \in 1000000..2499999 \/ (n[1] = 2500000 /\ n[2] = 0)

\* C22: looks_like_unix_timestamp(n) is true exactly for 1000000000 <= n <= 2500000000
\* and for 1000000000000 <= n <= 2500000000000, bounds included; no value of the first
\* window is above 1e11 and every value of the second is, as try_coerce tests it
C22_TimestampWindows ==
    entry = "looks_like_unix_timestamp" =>
        \A i \in 1..Len(calls) :
            LET v      == calls[i].args.value
                secs   == v.e = 0 /\ InSecondsWindow(v.n)
                millis == v.e = 0 /\ InMillisecondsWindow(v.n)
            IN  /\ calls[i].result = (secs \/ millis)
                /\ secs => ~above_1e11(v)
                /\ millis => above_1e11(v)
                /\ v \in {PyBigInt(Big(1000, 0)), PyBigInt(Big(2500, 0)),
                          PyBigInt(Big(1000000, 0)), PyBigInt(Big(2500000, 0))}
                       => calls[i].result = TRUE
                /\ v \in {PyBigInt(Big(999, 999999)), PyBigInt(Big(2500, 1)),
                          PyBigInt(Big(999999, 999999)), PyBigInt(Big(2500000, 1)),
                          PyInt(123), PyBigInt(Big(3000, 0))}
                       => calls[i].result = FALSE

\* the upper bound of the seconds window is a timestamp, the next int is none
C22_Witness ==
    /\ entry = "looks_like_unix_timestamp"
    /\ calls # <<>>
    /\ calls[1].args.value = PyBigInt(Big(2500, 0))
    /\ calls[1].result = TRUE

\* C23: an empty schema dict is treated as no schema: validate_tool_arguments infers
\* the types from the field names and suggests nothing, check_response_types returns
\* the empty valid report; only a schema dict with a key is checked against, so that
\* its undeclared arguments get their suggestion
C23_EmptySchemaIsAbsent ==
    /\ (Validated /\ schema = EmptySchema) =>
          /\ report = validate_tool_arguments("t", arguments, NoSchema)
          /\ report.suggestions = <<>>
          /\ \A i \in 1..Len(arguments) :
                LET f == arguments[i].key
                    t == infer_type_from_field_name(f)
                IN  Findings(f) > 0 <=> (t # NoneStr /\ get_actual_type(arguments[i].value) # t)
    /\ (Checked /\ schema = EmptySchema) => report = EmptyReport
    /\ (Validated /\ ~schema.none /\ schema.keys # {}) =>
          \A i \in 1..Len(arguments) :
              ~HasKey(SchemaProperties(schema), arguments[i].key)
                  => CountField(report.suggestions, arguments[i].key) = 1

\* the empty schema: user_id is inferred integer and "5" is coerced
C23_Witness ==
    /\ Validated /\ schema = EmptySchema
    /\ arguments = <<Item("user_id", PyStr("5")), Item("name", PyStr("abc"))>>
    /\ report.auto_fixes = <<Item("user_id", PyInt(5))>>
    /\ report.suggestions = <<>>


=============================================================================
